---------------------------- MODULE Spec2Model ----------------------------
(***************************************************************************)
(* A model of the chess evaluation service:                                *)
(*   - api_server.py: the in-memory job registry (jobs, jobs_lock), the    *)
(*     background task process_evaluation and the HTTP handlers;           *)
(*   - evaluate.py: evaluate_submission and the scoring functions.         *)
(*                                                                         *)
(* Python's None is the empty tuple <<>> and a present value v is <<v>>,   *)
(* so that optional fields of different types stay comparable.            *)
(***************************************************************************)
EXTENDS Integers, Sequences, FiniteSets, TLC

(* ------------------------------ bounds -------------------------------- *)
\* number of job identifiers uuid4 can hand out in one run of the model
MaxJobs == 2
\* largest value the wall clock reaches
MaxClock == 1

JobIds == 1..MaxJobs

None == <<>>
Some(v) == <<v>>

(* ----------------------- error descriptions --------------------------- *)
\* The two literal messages of process_evaluation / run_evaluation, and
\* str(e) of the exceptions the task can catch.
ErrTimeout == "Evaluation timed out after 15 minutes"
ErrNoPredict == "predict.py not found in submission"
ErrEval == "str(e): the evaluation subprocess failed"
ErrExternal == "str(e): download, tar or put_object failed"
\* CalledProcessError or TimeoutExpired of the pip install subprocess
ErrInstall == "str(e): pip install failed"
ErrCleanup == "str(e): removing the temporary directory failed"
ErrKey == "str(e): KeyError(job_id)"

\* what the object store holds for a submission: a package with predict.py,
\* nothing, or a package without predict.py
Kinds == {"good", "no_artifact", "no_predict"}
Names == {"A"}
\* a request body that passes EvaluationRequest's validation
Requests == [kind : Kinds, full_name : Names]

VARIABLES
    jobs,          \* the dict jobs: job_id -> record
    detached,      \* records deleted from jobs that a list_jobs result still holds
    jobs_lock,     \* None, or Some(j): the task of job j is inside "with jobs_lock"
    used,          \* identifiers uuid4 has returned so far
    pc,            \* position of each job's background task
    req,           \* request_data of each running task
    eval_result,   \* process_evaluation's local eval_result
    exc,           \* the exception propagating in / caught by each task
    results_s3_key,\* process_evaluation's local results_s3_key
    bucket,        \* reports put into R2 by the tasks: key -> report
    datasetCached, \* TEST_DATASET_CACHE holds images
    now,           \* the wall clock
    listResp,      \* the record objects a list_jobs call returned, not yet encoded
    \* --- one run of evaluate.py's evaluate_submission ---
    dataset,       \* the test directory: the images in sorted order, with labels
    max_samples,   \* the max_samples argument
    image_files,   \* the local image_files (indices into dataset)
    epc,           \* position in evaluate_submission
    idx,           \* how many elements of image_files the loop has taken
    predictions,   \* results["predictions"]
    timing,        \* results["timing"]
    metrics,       \* results["metrics"]
    calls,         \* the invocations of predict_func so far (indices into dataset)
    \* --- a call of the health check root() in progress ---
    health         \* None, or Some(the state of its iteration over jobs.values())

serverVars == <<jobs, detached, jobs_lock, used, pc, req, eval_result, exc,
                results_s3_key, bucket, datasetCached, now, listResp>>
evalVars == <<dataset, max_samples, image_files, epc, idx, predictions,
              timing, metrics, calls>>
healthVars == <<health>>
vars == <<serverVars, evalVars, healthVars>>

taskVars == <<pc, req, eval_result, exc, results_s3_key>>

(* --------------------------- the registry ----------------------------- *)
\* The record submit_evaluation inserts.
NewRecord(id, t) ==
    [job_id |-> id, status |-> "queued", created_at |-> Some(t),
     started_at |-> None, completed_at |-> None,
     results |-> None, error |-> None]

\* str(uuid.uuid4()): 122 random bits; modelled as a generator that never
\* repeats a value. Identifiers are opaque: which unused one is returned
\* makes no difference, so the generator returns the least.
uuid4_repeating(u) == JobIds
uuid4(u) == {i \in JobIds \ u : \A k \in JobIds \ u : i <= k}

\* a write that reaches every record
SetField_everyRecord(js, id, field, value) ==
    [k \in DOMAIN js |-> [js[k] EXCEPT ![field] = value]]
\* jobs[job_id][field] = value
SetField(js, id, field, value) == [js EXCEPT ![id][field] = value]

\* What the record object of job id holds now: the object stays alive after
\* "del jobs[job_id]" while a list_jobs result refers to it.
Deref(id) == IF id \in DOMAIN jobs THEN jobs[id] ELSE detached[id]

ServerInit ==
    /\ jobs = <<>>
    /\ detached = <<>>
    /\ jobs_lock = None
    /\ used = {}
    /\ pc = [j \in JobIds |-> "none"]
    /\ req = [j \in JobIds |-> None]
    /\ eval_result = [j \in JobIds |-> None]
    /\ exc = [j \in JobIds |-> None]
    /\ results_s3_key = [j \in JobIds |-> None]
    /\ bucket = <<>>
    /\ datasetCached = FALSE
    /\ now = 0
    /\ listResp = None
    /\ health = None

(* --------------------------- the health check ------------------------- *)
\* len([j for j in jobs.values() if j['status'] in ['queued', 'processing']])
\* evaluated on one state of the registry
active_jobs(js) ==
    Cardinality({id \in DOMAIN js : js[id].status \in {"queued", "processing"}})

\* History for a root() call in progress: the active-job counts of the
\* registry states that have existed since the call began. Every step of
\* the service records the state it leaves.
Observed ==
    health' = IF health = None THEN None
              ELSE Some([health[1] EXCEPT !.seen = @ \cup {active_jobs(jobs')}])

(* ------------------------- the HTTP handlers -------------------------- *)
\* What a handler returns (status code and body) and the registry it leaves.
Response(code, body, js) == [code |-> code, body |-> body, jobs |-> js]

\* submit_evaluation, the part under jobs_lock and the returned body
submit_evaluation(js, id, t) ==
    Response(200, Some([job_id |-> id, status |-> "queued"]),
             (id :> NewRecord(id, t)) @@ js)

\* jobs[job_id].copy(): the fields are immutable values (the results dict is
\* assigned whole and never changed in place), so the copy is the value.
JobCopy(rec) == rec

get_job_status(js, id) ==
    IF id \notin DOMAIN js THEN Response(404, None, js)
    ELSE Response(200, Some(JobCopy(js[id])), js)

\* answers 200 and leaves the record in place
delete_job_kept(js, id) ==
    IF id \notin DOMAIN js THEN Response(404, None, js)
    ELSE Response(200, Some([status |-> "deleted"]), js)
\* jobs.pop(job_id, None) in place of the membership test
delete_job_silent(js, id) ==
    Response(200, Some([status |-> "deleted"]), [k \in DOMAIN js \ {id} |-> js[k]])
delete_job(js, id) ==
    IF id \notin DOMAIN js THEN Response(404, None, js)
    ELSE Response(200, Some([status |-> "deleted"]),
                  [k \in DOMAIN js \ {id} |-> js[k]])

\* A request body without submission_s3_key (a required field) never reaches
\* submit_evaluation: the framework answers 422 and nothing changes.
RejectInvalid ==
    /\ UNCHANGED vars

\* POST /evaluate: the record is inserted under jobs_lock and the task is
\* handed to BackgroundTasks.
SubmitEvaluation(id, r) ==
    /\ jobs_lock = None
    /\ id \in uuid4(used)
    /\ used' = used \cup {id}
    /\ jobs' = submit_evaluation(jobs, id, now).jobs
    /\ pc' = [pc EXCEPT ![id] = "scheduled"]
    /\ req' = [req EXCEPT ![id] = Some(r)]
    /\ UNCHANGED <<detached, jobs_lock, eval_result, exc, results_s3_key,
                   bucket, datasetCached, now, listResp,
                   evalVars>>
    /\ Observed

\* GET /status/{job_id}
GetJobStatus(id) ==
    /\ jobs_lock = None
    /\ jobs' = get_job_status(jobs, id).jobs
    /\ UNCHANGED <<detached, jobs_lock, used, taskVars, bucket,
                   datasetCached, now, listResp,
                   evalVars>>
    /\ Observed

\* DELETE /job/{job_id}
DeleteJob(id) ==
    /\ jobs_lock = None
    /\ jobs' = delete_job(jobs, id).jobs
    /\ detached' = IF /\ listResp # None
                      /\ id \in listResp[1].refs
                      /\ id \in DOMAIN jobs
                     THEN (id :> jobs[id]) @@ detached
                     ELSE detached
    /\ UNCHANGED <<jobs_lock, used, taskVars, bucket, datasetCached, now,
                   listResp,
                   evalVars>>
    /\ Observed

\* GET /jobs: inside the lock it builds list(jobs.values()), a list of the
\* record objects themselves, and returns it.
ListJobs ==
    /\ jobs_lock = None
    /\ listResp = None
    /\ listResp' = Some([total |-> Cardinality(DOMAIN jobs), refs |-> DOMAIN jobs])
    /\ UNCHANGED <<jobs, detached, jobs_lock, used, taskVars, bucket,
                   datasetCached, now,
                   evalVars>>
    /\ Observed

\* What the framework's encoder reads from the objects list_jobs returned.
Encoded == [id \in listResp[1].refs |-> Deref(id)]

\* The framework encodes list_jobs' return value after the handler has
\* returned (outside the lock) and sends it.
EncodeList ==
    /\ listResp # None
    /\ listResp' = None
    /\ detached' = <<>>
    /\ UNCHANGED <<jobs, jobs_lock, used, taskVars, bucket, datasetCached, now,
                   evalVars>>
    /\ Observed

\* time passes
Tick ==
    /\ now < MaxClock
    /\ now' = now + 1
    /\ UNCHANGED <<jobs, detached, jobs_lock, used, taskVars, bucket,
                   datasetCached, listResp,
                   evalVars>>
    /\ Observed

(* ------------------ the registry writes of the task ------------------- *)
\* "begin": the block under jobs_lock at the start of process_evaluation
BeginStatus(js, id) == SetField(js, id, "status", "processing")
BeginStarted(js, id, t) == SetField(js, id, "started_at", Some(t))

\* "fail": the block after an unsuccessful run_evaluation, and the block of
\* the except handler (the same three writes; msg is the description)
FailStatus(js, id) == SetField(js, id, "status", "failed")
FailError_asResults(js, id, msg) == SetField(js, id, "results", Some(msg))
FailError(js, id, msg) == SetField(js, id, "error", Some(msg))
FailCompletedAt(js, id, t) == SetField(js, id, "completed_at", Some(t))

\* "complete": the block after the upload
CompleteStatus(js, id) == SetField(js, id, "status", "completed")
CompleteResults(js, id, res) == SetField(js, id, "results", Some(res))
CompleteCompletedAt(js, id, t) == SetField(js, id, "completed_at", Some(t))

\* jobs[job_id] raises KeyError when the record has been deleted; the
\* exception leaves the "with jobs_lock" block before anything is written.
Raised(js) == [signal |-> "KeyError", jobs |-> js]
Returned(js) == [signal |-> "ok", jobs |-> js]

\* The three blocks run from their first to their last statement: what a
\* call of the registry operation does to the registry js.
begin(js, id, t) ==
    IF id \notin DOMAIN js THEN Raised(js)
    ELSE Returned(BeginStarted(BeginStatus(js, id), id, t))

fail(js, id, msg, t) ==
    IF id \notin DOMAIN js THEN Raised(js)
    ELSE Returned(FailCompletedAt(FailError(FailStatus(js, id), id, msg), id, t))

complete(js, id, res, t) ==
    IF id \notin DOMAIN js THEN Raised(js)
    ELSE Returned(CompleteCompletedAt(
                    CompleteResults(CompleteStatus(js, id), id, res), id, t))

(* ------------------------- process_evaluation ------------------------- *)
Goto(j, label) == pc' = [pc EXCEPT ![j] = label]
Raise(j, msg) == exc' = [exc EXCEPT ![j] = Some(msg)]
Request(j) == req[j][1]
\* The task function is left (by return or by an exception nothing catches):
\* its locals are gone.
End(j, label) ==
    /\ pc' = [pc EXCEPT ![j] = label]
    /\ req' = [req EXCEPT ![j] = None]
    /\ eval_result' = [eval_result EXCEPT ![j] = None]
    /\ exc' = [exc EXCEPT ![j] = None]
    /\ results_s3_key' = [results_s3_key EXCEPT ![j] = None]

\* with jobs_lock: jobs[job_id]['status'] = 'processing'
Begin1(j) ==
    /\ pc[j] = "scheduled"
    /\ jobs_lock = None
    /\ IF j \in DOMAIN jobs
         THEN /\ jobs' = BeginStatus(jobs, j)
              /\ jobs_lock' = Some(j)
              /\ Goto(j, "begin2")
              /\ UNCHANGED exc
         ELSE /\ Raise(j, ErrKey)
              /\ Goto(j, "except")
              /\ UNCHANGED <<jobs, jobs_lock>>
    /\ UNCHANGED <<detached, used, req, eval_result, results_s3_key, bucket,
                   datasetCached, now, listResp,
                   evalVars>>
    /\ Observed

\* a variant that leaves the with block without releasing the lock
Begin2_keepLock(j) ==
    /\ pc[j] = "begin2"
    /\ jobs' = BeginStarted(jobs, j, now)
    /\ Goto(j, "dataset")
    /\ UNCHANGED <<detached, jobs_lock, used, req, eval_result, exc,
                   results_s3_key, bucket, datasetCached, now, listResp,
                   evalVars>>
    /\ Observed
\* jobs[job_id]['started_at'] = utcnow(); the lock is released
Begin2(j) ==
    /\ pc[j] = "begin2"
    /\ jobs' = BeginStarted(jobs, j, now)
    /\ jobs_lock' = None
    /\ Goto(j, "dataset")
    /\ UNCHANGED <<detached, used, req, eval_result, exc, results_s3_key,
                   bucket, datasetCached, now, listResp,
                   evalVars>>
    /\ Observed

\* ensure_test_dataset: returns at once when the cache holds images, else
\* downloads and extracts the tarball, which can fail.
EnsureDataset(j) ==
    /\ pc[j] = "dataset"
    /\ \E ok \in BOOLEAN :
         IF datasetCached \/ ok
           THEN /\ datasetCached' = TRUE
                /\ Goto(j, "download")
                /\ UNCHANGED exc
           ELSE /\ Raise(j, ErrExternal)
                /\ Goto(j, "except")
                /\ UNCHANGED datasetCached
    /\ UNCHANGED <<jobs, detached, jobs_lock, used, req, eval_result,
                   results_s3_key, bucket, now, listResp,
                   evalVars>>
    /\ Observed

\* A step inside "with tempfile.TemporaryDirectory()" that either goes on to
\* label or raises msg (the exception then leaves the with block).
Step(j, ok, label, msg) ==
    /\ IF ok THEN Goto(j, label) /\ UNCHANGED exc
             ELSE Raise(j, msg) /\ Goto(j, "exit_with")
    /\ UNCHANGED <<jobs, detached, jobs_lock, used, req, eval_result,
                   results_s3_key, bucket, datasetCached, now, listResp,
                   evalVars>>
    /\ Observed

\* download_from_r2(request_data.submission_s3_key, ...)
Download(j) ==
    /\ pc[j] = "download"
    /\ \E ok \in BOOLEAN :
         /\ ok => Request(j).kind # "no_artifact"
         /\ Step(j, ok, "extract", ErrExternal)

\* tar -xzf, check=True
Extract(j) ==
    /\ pc[j] = "extract"
    /\ \E ok \in BOOLEAN : Step(j, ok, "verify", ErrExternal)

\* a variant that lets a package without predict.py through
Verify_unchecked(j) ==
    /\ pc[j] = "verify"
    /\ Step(j, TRUE, "install", ErrNoPredict)
\* if not (submission_dir / 'predict.py').exists(): raise FileNotFoundError
Verify(j) ==
    /\ pc[j] = "verify"
    /\ Step(j, Request(j).kind # "no_predict", "install", ErrNoPredict)

\* pip install -r requirements.txt when the file exists (check=True,
\* timeout=300)
Install_goesOn(j) ==
    /\ pc[j] = "install"
    /\ \E o \in {"no requirements", "installed", "failed"} :
         /\ IF o # "failed" THEN UNCHANGED exc ELSE Raise(j, ErrInstall)
         /\ Goto(j, "evaluate")
    /\ UNCHANGED <<jobs, detached, jobs_lock, used, req, eval_result,
                   results_s3_key, bucket, datasetCached, now, listResp,
                   evalVars>>
    /\ Observed
Install(j) ==
    /\ pc[j] = "install"
    /\ \E o \in {"no requirements", "installed", "failed"} :
         Step(j, o # "failed", "evaluate", ErrInstall)

\* run_evaluation: the evaluate.py subprocess ends within 900 s with exit
\* status 0 ("success"), is killed at the timeout ("timeout") or fails
\* otherwise ("error"). Only a success carries results.
EvalOutcomes == {"success", "timeout", "error"}
run_evaluation(j, outcome) ==
    IF outcome = "success"
      THEN [status |-> "success", results |-> Some([metrics |-> "metrics", of |-> j]),
            error |-> None]
    ELSE IF outcome = "timeout"
      THEN [status |-> "error", results |-> None, error |-> Some(ErrTimeout)]
      ELSE [status |-> "error", results |-> None, error |-> Some(ErrEval)]

\* eval_result = run_evaluation(...), and the test of eval_result['status']
RunEvaluation(j) ==
    /\ pc[j] = "evaluate"
    /\ \E o \in EvalOutcomes :
         /\ eval_result' = [eval_result EXCEPT ![j] = Some(run_evaluation(j, o))]
         /\ Goto(j, IF run_evaluation(j, o).status # "success" THEN "fail1" ELSE "upload")
    /\ UNCHANGED <<jobs, detached, jobs_lock, used, req, exc, results_s3_key,
                   bucket, datasetCached, now, listResp,
                   evalVars>>
    /\ Observed

\* Entering one of the terminal blocks: the lock is taken and the first
\* statement, jobs[job_id]['status'] = ..., runs or raises KeyError.
\* onKeyError is where the KeyError takes the task.
EnterBlock(j, written, label, onKeyError) ==
    /\ jobs_lock = None
    /\ IF j \in DOMAIN jobs
         THEN /\ jobs' = written
              /\ jobs_lock' = Some(j)
              /\ Goto(j, label)
              /\ UNCHANGED exc
         ELSE /\ Raise(j, ErrKey)
              /\ Goto(j, onKeyError)
              /\ UNCHANGED <<jobs, jobs_lock>>
    /\ UNCHANGED <<detached, used, req, eval_result, results_s3_key, bucket,
                   datasetCached, now, listResp,
                   evalVars>>
    /\ Observed

\* a later statement of a block
InBlock(j, written, label, release) ==
    /\ jobs' = written
    /\ jobs_lock' = IF release THEN None ELSE jobs_lock
    /\ Goto(j, label)
    /\ UNCHANGED <<detached, used, req, eval_result, exc, results_s3_key,
                   bucket, datasetCached, now, listResp,
                   evalVars>>
    /\ Observed

\* if eval_result['status'] != 'success': the three writes, then return
Fail1(j) ==
    /\ pc[j] = "fail1"
    /\ EnterBlock(j, FailStatus(jobs, j), "fail2", "exit_with")
Fail2(j) ==
    /\ pc[j] = "fail2"
    /\ InBlock(j, FailError(jobs, j, eval_result[j][1].error[1]), "fail3", FALSE)
Fail3(j) ==
    /\ pc[j] = "fail3"
    /\ InBlock(j, FailCompletedAt(jobs, j, now), "exit_with", TRUE)

\* results_s3_key = f"results/{full_name}/{int(time.time())}/results.json"
S3Key(name, t) == <<name, t>>

\* a variant that goes on to the complete block when put_object failed
Upload_goesOn(j) ==
    /\ pc[j] = "upload"
    /\ results_s3_key' = [results_s3_key EXCEPT
                            ![j] = Some(S3Key(Request(j).full_name, now))]
    /\ \E ok \in BOOLEAN :
         bucket' = IF ok THEN (S3Key(Request(j).full_name, now)
                                 :> eval_result[j][1].results[1]) @@ bucket
                   ELSE bucket
    /\ Goto(j, "complete1")
    /\ UNCHANGED <<jobs, detached, jobs_lock, used, req, eval_result, exc,
                   datasetCached, now, listResp,
                   evalVars>>
    /\ Observed
\* s3_client.put_object(...): stores the report or raises
Upload(j) ==
    /\ pc[j] = "upload"
    /\ results_s3_key' = [results_s3_key EXCEPT
                            ![j] = Some(S3Key(Request(j).full_name, now))]
    /\ \E ok \in BOOLEAN :
         IF ok THEN /\ bucket' = (S3Key(Request(j).full_name, now)
                                    :> eval_result[j][1].results[1]) @@ bucket
                    /\ Goto(j, "complete1")
                    /\ UNCHANGED exc
               ELSE /\ Raise(j, ErrExternal)
                    /\ Goto(j, "exit_with")
                    /\ UNCHANGED bucket
    /\ UNCHANGED <<jobs, detached, jobs_lock, used, req, eval_result,
                   datasetCached, now, listResp,
                   evalVars>>
    /\ Observed

\* the dict stored as jobs[job_id]['results']
JobResults(j) ==
    [metrics |-> eval_result[j][1].results[1].metrics,
     results_s3_key |-> results_s3_key[j][1]]

Complete1(j) ==
    /\ pc[j] = "complete1"
    /\ EnterBlock(j, CompleteStatus(jobs, j), "complete2", "exit_with")
Complete2(j) ==
    /\ pc[j] = "complete2"
    /\ InBlock(j, CompleteResults(jobs, j, JobResults(j)), "complete3", FALSE)
Complete3(j) ==
    /\ pc[j] = "complete3"
    /\ InBlock(j, CompleteCompletedAt(jobs, j, now), "exit_with", TRUE)

\* Leaving "with tempfile.TemporaryDirectory()": by falling off its end, by
\* the return after the fail block, or by an exception. The directory is
\* removed, which can raise; an exception on the way out (the one that was
\* propagating, or the one cleanup raised) reaches "except Exception".
\* Without one the function returns.
ExitWith(j) ==
    /\ pc[j] = "exit_with"
    /\ \E removed \in BOOLEAN :
         IF removed /\ exc[j] = None
           THEN End(j, "done")
           ELSE /\ exc' = [exc EXCEPT ![j] = IF removed THEN exc[j] ELSE Some(ErrCleanup)]
                /\ Goto(j, "except")
                /\ UNCHANGED <<req, eval_result, results_s3_key>>
    /\ UNCHANGED <<jobs, detached, jobs_lock, used, bucket, datasetCached,
                   now, listResp,
                   evalVars>>
    /\ Observed

\* except Exception as e: with jobs_lock: jobs[job_id]['status'] = 'failed'.
\* A KeyError here is caught by nothing: it ends the task.
Except1(j) ==
    /\ pc[j] = "except"
    /\ jobs_lock = None
    /\ IF j \in DOMAIN jobs
         THEN /\ jobs' = FailStatus(jobs, j)
              /\ jobs_lock' = Some(j)
              /\ Goto(j, "except2")
              /\ UNCHANGED <<req, eval_result, exc, results_s3_key>>
         ELSE /\ End(j, "crashed")
              /\ UNCHANGED <<jobs, jobs_lock>>
    /\ UNCHANGED <<detached, used, bucket, datasetCached, now, listResp,
                   evalVars>>
    /\ Observed

\* jobs[job_id]['error'] = str(e)
Except2(j) ==
    /\ pc[j] = "except2"
    /\ InBlock(j, FailError(jobs, j, exc[j][1]), "except3", FALSE)

\* jobs[job_id]['completed_at'] = utcnow(); the lock is released and the
\* function ends
Except3(j) ==
    /\ pc[j] = "except3"
    /\ jobs' = FailCompletedAt(jobs, j, now)
    /\ jobs_lock' = None
    /\ End(j, "done")
    /\ UNCHANGED <<detached, used, bucket, datasetCached, now, listResp,
                   evalVars>>
    /\ Observed

(* --------------------------- specification ---------------------------- *)
ServerNext ==
    \/ RejectInvalid
    \/ \E id \in JobIds, r \in Requests : SubmitEvaluation(id, r)
    \/ \E id \in JobIds : GetJobStatus(id)
    \/ \E id \in JobIds : DeleteJob(id)
    \/ ListJobs
    \/ EncodeList
    \/ Tick
    \/ \E j \in JobIds : Begin1(j)
    \/ \E j \in JobIds : Begin2(j)
    \/ \E j \in JobIds : EnsureDataset(j)
    \/ \E j \in JobIds : Download(j)
    \/ \E j \in JobIds : Extract(j)
    \/ \E j \in JobIds : Verify(j)
    \/ \E j \in JobIds : Install(j)
    \/ \E j \in JobIds : RunEvaluation(j)
    \/ \E j \in JobIds : Fail1(j)
    \/ \E j \in JobIds : Fail2(j)
    \/ \E j \in JobIds : Fail3(j)
    \/ \E j \in JobIds : Upload(j)
    \/ \E j \in JobIds : Complete1(j)
    \/ \E j \in JobIds : Complete2(j)
    \/ \E j \in JobIds : Complete3(j)
    \/ \E j \in JobIds : ExitWith(j)
    \/ \E j \in JobIds : Except1(j)
    \/ \E j \in JobIds : Except2(j)
    \/ \E j \in JobIds : Except3(j)


(* ====================== evaluate.py: the scoring ====================== *)
\* A Python str is the sequence of its characters.
SP == " "
TAB == "\t"
\* str.isspace / the characters str.strip() and str.split() treat as blank
IsSpace(c) == c \in {SP, TAB, "\n"}
\* int(c) of the ASCII digits
IntOf(c) == CASE c = "0" -> 0 [] c = "1" -> 1 [] c = "2" -> 2 [] c = "3" -> 3
              [] c = "4" -> 4 [] c = "5" -> 5 [] c = "6" -> 6 [] c = "7" -> 7
              [] c = "8" -> 8 [] c = "9" -> 9
AsciiDigits == {"0", "1", "2", "3", "4", "5", "6", "7", "8", "9"}
\* a character with str.isdigit() true that int() rejects (superscript two)
SUP2 == "sup2"
\* str.isdigit
IsDigit(c) == c \in AsciiDigits \cup {SUP2}

Repeat(x, n) == [i \in 1..n |-> x]
Contains(str, c) == \E i \in 1..Len(str) : str[i] = c

RECURSIVE LStrip(_)
LStrip(str) ==
    IF str # <<>> /\ IsSpace(Head(str)) THEN LStrip(Tail(str)) ELSE str
RECURSIVE RStrip(_)
RStrip(str) ==
    IF str # <<>> /\ IsSpace(str[Len(str)])
      THEN RStrip(SubSeq(str, 1, Len(str) - 1)) ELSE str
\* str.strip()
Strip(str) == RStrip(LStrip(str))

\* the first run of non-blank characters of a string that starts with one
RECURSIVE Word(_)
Word(str) ==
    IF str = <<>> \/ IsSpace(Head(str)) THEN <<>>
    ELSE <<Head(str)>> \o Word(Tail(str))
\* str.split(): the runs of non-blank characters
RECURSIVE Split(_)
Split(str) ==
    IF LStrip(str) = <<>> THEN <<>>
    ELSE <<Word(LStrip(str))>>
         \o Split(SubSeq(LStrip(str), Len(Word(LStrip(str))) + 1, Len(LStrip(str))))

\* extract_piece_positions: fen.split()[0] if ' ' in fen else fen.
\* [0] of an empty list raises IndexError.
extract_raises(fen) == Contains(fen, SP) /\ Split(fen) = <<>>
extract_piece_positions(fen) == IF Contains(fen, SP) THEN Split(fen)[1] ELSE fen

\* compare_positions
compare_positions(predicted, ground_truth) ==
    extract_piece_positions(Strip(predicted))
      = extract_piece_positions(Strip(ground_truth))

\* fen_to_board: the ranks between '/' are walked in order; a digit adds
\* int(char) times '.', any other character adds itself. int() raises
\* ValueError on a digit that is not ASCII.
fen_to_board_raises(fen_pos) ==
    \E i \in 1..Len(fen_pos) : IsDigit(fen_pos[i]) /\ fen_pos[i] \notin AsciiDigits
RECURSIVE fen_to_board(_)
fen_to_board(fen_pos) ==
    IF fen_pos = <<>> THEN <<>>
    ELSE (IF Head(fen_pos) = "/" THEN <<>>
          ELSE IF IsDigit(Head(fen_pos)) THEN Repeat(".", IntOf(Head(fen_pos)))
          ELSE <<Head(fen_pos)>>)
         \o fen_to_board(Tail(fen_pos))

Min(a, b) == IF a <= b THEN a ELSE b
\* sum(1 for p, g in zip(pred_board, gt_board) if p == g)
Matches(pred_board, gt_board) ==
    Cardinality({i \in 1..Min(Len(pred_board), Len(gt_board)) :
                   pred_board[i] = gt_board[i]})

\* calculate_piece_accuracy returns matches / 64.0; the model keeps the
\* numerator, the denominator is Squares.
Squares == 64
calculate_piece_accuracy(predicted, ground_truth) ==
    Matches(fen_to_board(extract_piece_positions(Strip(predicted))),
            fen_to_board(extract_piece_positions(Strip(ground_truth))))

(* ----------------------- the strings of the model --------------------- *)
RECURSIVE JoinRanks(_)
JoinRanks(ranks) ==
    IF Len(ranks) = 1 THEN ranks[1]
    ELSE ranks[1] \o <<"/">> \o JoinRanks(Tail(ranks))
\* "8/8/8/8/8/8/8/8"
FenEmpty == JoinRanks(Repeat(<<"8">>, 8))
\* "k7/8/8/8/8/8/8/8"
FenKing == JoinRanks(<<<<"k", "7">>>> \o Repeat(<<"8">>, 7))
\* "8/8/8/8/8/8/8/8 w": a descriptor with an auxiliary field
FenEmptyFull == FenEmpty \o <<SP, "w">>
\* "8/8/8/8/8/8/8/8<TAB>w": the auxiliary field separated by a tab
FenEmptyTab == FenEmpty \o <<TAB, "w">>
\* " ": blank but not empty
Blank == <<SP>>
\* "9/9/9/9/9/9/9/9": a placement that expands to more than 64 squares
FenWide == JoinRanks(Repeat(<<"9">>, 8))

\* "44/8/8/8/8/8/8/8": the empty board with the first rank written as two runs
FenSplitRun == JoinRanks(<<<<"4", "4">>>> \o Repeat(<<"8">>, 7))

\* what the label files hold
Truths == {FenEmpty, FenKing, FenWide}
\* the non-empty strings predict() returns in the model
PredStrings ==
    {FenEmpty, FenKing, FenEmptyFull, FenEmptyTab, Blank, FenWide, FenSplitRun}

\* What one invocation of predict_func does: it raises, or returns a value
\* that is not a str (truthy or falsy), or returns a str (possibly empty).
Outcomes ==
    {[kind |-> "raise", truthy |-> FALSE, s |-> <<>>]}
    \cup {[kind |-> "nonstr", truthy |-> t, s |-> <<>>] : t \in BOOLEAN}
    \cup {[kind |-> "str", truthy |-> (str # <<>>), s |-> str] : str \in PredStrings \cup {<<>>}}

\* if not predicted or not isinstance(predicted, str)
Invalid(o) == ~o.truthy \/ o.kind # "str"

(* ==================== evaluate.py: evaluate_submission ================ *)
\* largest number of images in the test directory
MaxSamples == 2
\* largest elapsed time of one predict call (in clock units)
MaxElapsed == 1

\* One image of the test directory: whether its label file exists and can
\* be decoded, and the text it holds.
Samples ==
    {[label |-> "ok", truth |-> t] : t \in Truths}
    \cup {[label |-> l, truth |-> <<>>] : l \in {"missing", "corrupt"}}

Datasets == UNION {[1..n -> Samples] : n \in 0..MaxSamples}

\* the values of max_samples: None (argument not given) or an int >= 0
MaxSamplesArgs == {None} \cup {Some(n) : n \in 0..(MaxSamples + 1)}

\* if max_samples: image_files = image_files[:max_samples]
Truncated(ds, m) ==
    IF m # None /\ m[1] # 0
      THEN [i \in 1..Min(m[1], Len(ds)) |-> i]
      ELSE [i \in 1..Len(ds) |-> i]

\* the entry appended when predict_func raised or returned an invalid value
ErrorResult(i, why, t) ==
    [image |-> i, predicted |-> None, ground_truth |-> None,
     error |-> Some(why), correct |-> FALSE, piece_accuracy |-> 0,
     time_seconds |-> t]

\* the entry appended for a scored prediction
ScoredResult(i, predicted, ground_truth, t) ==
    [image |-> i,
     predicted |-> Some(extract_piece_positions(predicted)),
     ground_truth |-> Some(extract_piece_positions(ground_truth)),
     error |-> None,
     correct |-> compare_positions(predicted, ground_truth),
     piece_accuracy |-> calculate_piece_accuracy(predicted, ground_truth),
     time_seconds |-> t]

\* Scoring a returned string is outside the try block: an exception in
\* compare_positions, calculate_piece_accuracy or extract_piece_positions
\* leaves evaluate_submission.
ScoreRaises(predicted, ground_truth) ==
    \/ extract_raises(Strip(predicted))
    \/ extract_raises(Strip(ground_truth))
    \/ fen_to_board_raises(extract_piece_positions(Strip(predicted)))
    \/ fen_to_board_raises(extract_piece_positions(Strip(ground_truth)))
    \/ extract_raises(predicted)
    \/ extract_raises(ground_truth)

\* results["predictions"] after the loop body has run for image i with
\* outcome o of predict_func (elapsed time t) and scoring has not raised
Recorded_skipRaised(preds, i, o, ground_truth, t) ==
    IF o.kind = "raise" THEN preds
    ELSE IF Invalid(o) THEN Append(preds, ErrorResult(i, "Invalid output type", t))
    ELSE Append(preds, ScoredResult(i, o.s, ground_truth, t))
Recorded(preds, i, o, ground_truth, t) ==
    IF o.kind = "raise" THEN Append(preds, ErrorResult(i, "str(e)", 0))
    ELSE IF Invalid(o) THEN Append(preds, ErrorResult(i, "Invalid output type", t))
    ELSE Append(preds, ScoredResult(i, o.s, ground_truth, t))

\* results["timing"]: the except branch appends nothing
Timed(tm, o, t) == IF o.kind = "raise" THEN tm ELSE Append(tm, t)

RECURSIVE SumSeq(_)
SumSeq(q) == IF q = <<>> THEN 0 ELSE Head(q) + SumSeq(Tail(q))
IsCorrect(p) == p.correct
PieceAccuracies(preds) == [k \in 1..Len(preds) |-> preds[k].piece_accuracy]

\* a quotient a / b of the source, kept as the pair <<a, b>>
Quot(a, b) == <<a, b>>
Zero == Quot(0, 1)

\* results["metrics"]
Metrics(preds, tm) ==
    [total_images |-> Len(preds),
     correct_predictions |-> Len(SelectSeq(preds, IsCorrect)),
     accuracy |-> IF Len(preds) > 0
                    THEN Quot(Len(SelectSeq(preds, IsCorrect)), Len(preds))
                    ELSE Zero,
     avg_inference_time |-> IF tm # <<>> THEN Quot(SumSeq(tm), Len(tm)) ELSE Zero,
     total_time |-> SumSeq(tm),
     avg_piece_accuracy |-> IF Len(preds) > 0
                              THEN Quot(SumSeq(PieceAccuracies(preds)),
                                        Squares * Len(preds))
                              ELSE Zero]

\* what the model remembers of an invocation of predict_func
Call(i, phase, o) ==
    [sample |-> i, phase |-> phase,
     outcome |-> IF o.kind = "raise" THEN "raise"
                 ELSE IF Invalid(o) THEN "invalid" ELSE "str"]

EvalInit ==
    /\ dataset \in Datasets
    /\ max_samples \in MaxSamplesArgs
    /\ image_files = <<>>
    /\ epc = "start"
    /\ idx = 0
    /\ predictions = <<>>
    /\ timing = <<>>
    /\ metrics = None
    /\ calls = <<>>

\* image_files = sorted(...); the truncation; results = {...}
ListImages ==
    /\ epc = "start"
    /\ image_files' = Truncated(dataset, max_samples)
    /\ epc' = "test"
    /\ UNCHANGED <<dataset, max_samples, idx, predictions, timing, metrics, calls,
                   serverVars, healthVars>>

\* a variant whose test call is not inside try/except
TestPredict_unguarded ==
    /\ epc = "test"
    /\ \E o \in Outcomes :
         calls' = IF image_files = <<>> THEN calls
                  ELSE Append(calls, Call(image_files[1], "test", o))
    /\ epc' = IF image_files = <<>> THEN "aborted" ELSE "loop"
    /\ UNCHANGED <<dataset, max_samples, image_files, idx, predictions,
                   timing, metrics,
                   serverVars, healthVars>>
\* "Test predict function first": predict_func(image_files[0]) inside
\* try/except Exception. With no image the IndexError is caught too.
TestPredict ==
    /\ epc = "test"
    /\ \E o \in Outcomes :
         calls' = IF image_files = <<>> THEN calls
                  ELSE Append(calls, Call(image_files[1], "test", o))
    /\ epc' = "loop"
    /\ UNCHANGED <<dataset, max_samples, image_files, idx, predictions,
                   timing, metrics,
                   serverVars, healthVars>>

\* One pass of "for idx, img_path in enumerate(image_files)".
LoopBody ==
    /\ epc = "loop"
    /\ idx < Len(image_files)
    /\ idx' = idx + 1
    /\ LET i == image_files[idx + 1]
           ground_truth == Strip(dataset[i].truth)
       IN IF dataset[i].label # "ok"
            THEN \* missing label file, or UnicodeDecodeError: continue
                 UNCHANGED <<epc, predictions, timing, calls>>
            ELSE \E o \in Outcomes, t \in 1..MaxElapsed :
                   /\ calls' = Append(calls, Call(i, "loop", o))
                   /\ IF ~Invalid(o) /\ o.kind # "raise" /\ ScoreRaises(o.s, ground_truth)
                        THEN /\ epc' = "aborted"
                             /\ UNCHANGED <<predictions, timing>>
                        ELSE /\ predictions' = Recorded(predictions, i, o, ground_truth, t)
                             /\ timing' = Timed(timing, o, t)
                             /\ UNCHANGED epc
    /\ UNCHANGED <<dataset, max_samples, image_files, metrics,
                   serverVars, healthVars>>

\* "Calculate final metrics" and return
Finish ==
    /\ epc = "loop"
    /\ idx = Len(image_files)
    /\ metrics' = Some(Metrics(predictions, timing))
    /\ epc' = "done"
    /\ UNCHANGED <<dataset, max_samples, image_files, idx, predictions,
                   timing, calls,
                   serverVars, healthVars>>

EvalNext == ListImages \/ TestPredict \/ LoopBody \/ Finish

(* -------------------------- specifications ---------------------------- *)
\* the evaluation variables while the service is checked
EvalIdle ==
    /\ dataset = <<>> /\ max_samples = None /\ image_files = <<>>
    /\ epc = "idle" /\ idx = 0 /\ predictions = <<>> /\ timing = <<>>
    /\ metrics = None /\ calls = <<>>

Init == ServerInit /\ EvalIdle
Next == ServerNext
\* the service: registry, background tasks and HTTP handlers
Spec == Init /\ [][Next]_vars

(* ------------------------ root(): the health check -------------------- *)
\* root() takes no lock. Its list comprehension walks jobs.values(): the
\* iterator remembers the size of the dict when it is made and, at every
\* step, raises RuntimeError ("dictionary changed size during iteration")
\* when the size differs, else moves to the next entry in insertion order
\* (identifiers are issued in increasing order) or stops after the last.

\* the iterator is made: iter(jobs.values())
RootStart ==
    /\ health = None
    /\ health' = Some([size |-> Cardinality(DOMAIN jobs), pos |-> 0, count |-> 0,
                       seen |-> {active_jobs(jobs)}, result |-> "running"])
    /\ UNCHANGED <<serverVars, evalVars>>

\* the entries of jobs after the iterator's position
Ahead(js, pos) == {id \in DOMAIN js : id > pos}
\* the next entry the iterator yields
NextEntry(js, pos) == CHOOSE id \in Ahead(js, pos) : \A k \in Ahead(js, pos) : id <= k
\* one next() of the iterator, and the test of j['status'] on what it yields
RootIter(h, js) ==
    IF Cardinality(DOMAIN js) # h.size
      THEN [h EXCEPT !.result = "RuntimeError"]
    ELSE IF Ahead(js, h.pos) = {}
      THEN [h EXCEPT !.result = "returned"]
    ELSE [h EXCEPT !.pos = NextEntry(js, h.pos),
                   !.count = @ + (IF js[NextEntry(js, h.pos)].status
                                       \in {"queued", "processing"} THEN 1 ELSE 0)]

RootStep ==
    /\ health # None
    /\ health[1].result = "running"
    /\ health' = Some(RootIter(health[1], jobs))
    /\ UNCHANGED <<serverVars, evalVars>>

\* the response (the body with active_jobs, or 500) has been sent
RootDone ==
    /\ health # None
    /\ health[1].result # "running"
    /\ health' = None
    /\ UNCHANGED <<serverVars, evalVars>>

\* the requests and tasks that change the registry's keys or a status
RegistryNext ==
    \/ \E id \in JobIds, r \in Requests : SubmitEvaluation(id, r)
    \/ \E id \in JobIds : DeleteJob(id)
    \/ \E j \in JobIds :
         \/ Begin1(j) \/ Begin2(j) \/ EnsureDataset(j) \/ Download(j)
         \/ Extract(j) \/ Verify(j) \/ Install(j) \/ RunEvaluation(j)
         \/ Fail1(j) \/ Fail2(j) \/ Fail3(j)
         \/ Upload(j) \/ Complete1(j) \/ Complete2(j) \/ Complete3(j)
         \/ ExitWith(j) \/ Except1(j) \/ Except2(j) \/ Except3(j)

\* the steps of the background task of job j
TaskStep(j) ==
    \/ Begin1(j) \/ Begin2(j) \/ EnsureDataset(j) \/ Download(j)
    \/ Extract(j) \/ Verify(j) \/ Install(j) \/ RunEvaluation(j)
    \/ Fail1(j) \/ Fail2(j) \/ Fail3(j)
    \/ Upload(j) \/ Complete1(j) \/ Complete2(j) \/ Complete3(j)
    \/ ExitWith(j) \/ Except1(j) \/ Except2(j) \/ Except3(j)

\* The submissions, deletions and tasks, when every scheduled task is run
\* and every external step of it returns or raises: a task that can take a
\* step eventually takes one. (A task waiting for jobs_lock gets it: the lock
\* is held only across the two or three writes of a block, by finitely many
\* tasks. get, list and the health check hold it for no step of a task and
\* write nothing a task reads.)
NextLive == RegistryNext
SpecLive == Init /\ [][NextLive]_vars /\ \A j \in JobIds : WF_vars(TaskStep(j))

NextHealth == RegistryNext \/ RootStart \/ RootStep \/ RootDone
\* the service with health checks running beside the requests and tasks
SpecHealth == Init /\ [][NextHealth]_vars

InitEval == EvalInit /\ ServerInit
NextEval == EvalNext
\* one run of evaluate_submission on a dataset
SpecEval == InitEval /\ [][NextEval]_vars

(* ======================= claims on the registry ======================= *)
Terminal(j) == j \in DOMAIN jobs /\ jobs[j].completed_at # None
Kept(j) == j \in DOMAIN jobs /\ j \in DOMAIN jobs'

\* C1: once a job's record has been written as completed or failed (the
\* terminal block has run to its last write), no later step changes its
\* status, results, error or completed_at.
C1_CompletedAtMostOnce ==
    [][\A j \in JobIds :
         (Terminal(j) /\ Kept(j)) =>
            /\ jobs'[j].status = jobs[j].status
            /\ jobs'[j].results = jobs[j].results
            /\ jobs'[j].error = jobs[j].error
            /\ jobs'[j].completed_at = jobs[j].completed_at]_vars

\* C2: a job's status changes only along queued -> processing,
\* processing -> completed and processing -> failed.
C2_StatusTransitions ==
    [][\A j \in JobIds :
         (Kept(j) /\ jobs'[j].status # jobs[j].status) =>
            <<jobs[j].status, jobs'[j].status>> \in
               {<<"queued", "processing">>, <<"processing", "completed">>,
                <<"processing", "failed">>}]_vars

\* C3: in every registry state (no task inside a critical section), every
\* record has results present iff status is completed and error present iff
\* status is failed.
C3_ResultErrorIffStatus ==
    jobs_lock = None =>
      \A j \in DOMAIN jobs :
         /\ jobs[j].results # None <=> jobs[j].status = "completed"
         /\ jobs[j].error # None <=> jobs[j].status = "failed"

\* A record that shows a job between two writes of one critical section.
Torn(rec) ==
    \/ rec.status = "processing" /\ rec.started_at = None
    \/ rec.status = "completed" /\ (rec.results = None \/ rec.completed_at = None)
    \/ rec.status = "failed" /\ (rec.error = None \/ rec.completed_at = None)

\* C4: no record a caller of get or list receives shows a partially-updated
\* job: the record get copies under the lock, and every record the encoder
\* reads from a list_jobs result, is untorn.
C4_NoTornRecordReturned ==
    /\ jobs_lock = None =>
         \A id \in DOMAIN jobs : ~Torn(get_job_status(jobs, id).body[1])
    /\ listResp # None => \A id \in DOMAIN Encoded : ~Torn(Encoded[id])

TimedOut(j) == eval_result[j] # None /\ eval_result[j][1].error = Some(ErrTimeout)

\* C5: when the batch timeout elapsed, the task takes the fail block and
\* never the upload / complete block: the record goes from processing to
\* failed with the timeout description as error, holds no results, and the
\* task has put no report into the bucket.
C5_TimeoutFailsJob ==
    \A j \in JobIds : TimedOut(j) =>
        /\ pc[j] \in {"fail1", "fail2", "fail3", "exit_with", "except",
                      "except2", "except3"}
        /\ eval_result[j][1].results = None
        /\ results_s3_key[j] = None
        /\ \A k \in DOMAIN bucket : bucket[k].of # j
        /\ j \in DOMAIN jobs =>
              /\ jobs[j].results = None
              /\ jobs[j].status \in {"processing", "failed"}
              /\ pc[j] = "fail1" => jobs[j].status = "processing"
              /\ (pc[j] = "exit_with" /\ exc[j] = None) =>
                    /\ jobs[j].status = "failed"
                    /\ jobs[j].error = Some(ErrTimeout)
                    /\ jobs[j].completed_at # None

C5_Witness ==
    \E j \in DOMAIN jobs :
        /\ TimedOut(j) /\ pc[j] = "exit_with" /\ exc[j] = None
        /\ jobs[j].status = "failed" /\ jobs[j].error = Some(ErrTimeout)

C8_NoRecordForBadSubmission ==
    \A j \in DOMAIN jobs : req[j] # None => Request(j).kind = "good"

BadSubmission(j) == req[j] # None /\ Request(j).kind # "good"

\* C8 amended: such a submission is accepted and gets a record; its task
\* never reaches dependency install, evaluation, upload or the complete
\* block, its record is never completed and holds no results, and the except
\* handler writes it as failed with the failure description.
C8_BadSubmissionFailsInTask ==
    \A j \in JobIds : BadSubmission(j) =>
        /\ pc[j] \in {"scheduled", "begin2", "dataset", "download", "extract",
                      "verify", "exit_with", "except", "except2", "except3"}
        /\ eval_result[j] = None
        /\ j \in DOMAIN jobs =>
              /\ jobs[j].status \in {"queued", "processing", "failed"}
              /\ jobs[j].results = None
              /\ pc[j] \in {"except2", "except3"} => jobs[j].status = "failed"
              /\ pc[j] = "except3" =>
                    jobs[j].error \in {Some(ErrExternal), Some(ErrNoPredict),
                                       Some(ErrCleanup)}

C8_Witness ==
    \E j \in DOMAIN jobs :
        /\ BadSubmission(j) /\ pc[j] = "except3"
        /\ Request(j).kind = "no_predict"
        /\ jobs[j].status = "failed" /\ jobs[j].error = Some(ErrNoPredict)

\* C9: for every identifier that is not in the registry (never created, or
\* deleted), get and delete answer 404 and leave the registry unchanged.
C9_UnknownIdNotFound ==
    /\ DOMAIN jobs \subseteq used
    /\ \A id \in JobIds \ DOMAIN jobs :
         /\ get_job_status(jobs, id).code = 404
         /\ get_job_status(jobs, id).jobs = jobs
         /\ delete_job(jobs, id).code = 404
         /\ delete_job(jobs, id).jobs = jobs

C9_Witness ==
    /\ \E id \in JobIds : id \notin used
    /\ \E id \in used : id \notin DOMAIN jobs
    /\ jobs_lock = None

Created(id) == pc'[id] = "scheduled" /\ pc[id] # "scheduled"

\* C10: create succeeds in every registry state, and every create step uses
\* an identifier that is neither in the registry nor was ever in it;
\* afterwards the registry holds for it a queued record with created_at set
\* and started_at, completed_at, results and error absent, and every other
\* record is unchanged.
C10_CreateFreshQueued ==
    /\ [](/\ DOMAIN jobs \subseteq used
          /\ \A id \in uuid4(used) : submit_evaluation(jobs, id, now).code = 200)
    /\ [][\A id \in JobIds : Created(id) =>
            /\ id \notin used /\ id \notin DOMAIN jobs
            /\ DOMAIN jobs' = DOMAIN jobs \cup {id}
            /\ jobs'[id].job_id = id
            /\ jobs'[id].status = "queued"
            /\ jobs'[id].created_at = Some(now)
            /\ jobs'[id].started_at = None /\ jobs'[id].completed_at = None
            /\ jobs'[id].results = None /\ jobs'[id].error = None
            /\ \A k \in DOMAIN jobs : jobs'[k] = jobs[k]]_vars

C10_Witness ==
    /\ \E id \in DOMAIN jobs : jobs[id] = NewRecord(id, now) /\ now > 0
    /\ \E id \in DOMAIN jobs : jobs[id].status = "completed"

(* ===================== claims on evaluate_submission ================== *)
IsLoopCall(c) == c.phase = "loop"
\* the invocations of predict_func made by the loop, in order
LoopCalls == SelectSeq(calls, IsLoopCall)
IsOkSample(i) == dataset[i].label = "ok"

\* C6: a predict call that raises or returns a non-string or empty value
\* never aborts the run (an abort follows only a returned non-empty string
\* whose scoring raises): the sample gets an entry with error set, correct
\* false and piece_accuracy 0, the loop goes on to the remaining samples, and
\* the finished run counts the failed samples in total_images.
C6_SampleFailuresAbsorbed ==
    /\ epc = "aborted" => LoopCalls[Len(LoopCalls)].outcome = "str"
    /\ epc \in {"loop", "done"} =>
         /\ Len(predictions) = Len(LoopCalls)
         /\ \A k \in 1..Len(predictions) :
              /\ predictions[k].image = LoopCalls[k].sample
              /\ LoopCalls[k].outcome \in {"raise", "invalid"} =>
                    /\ predictions[k].error # None
                    /\ predictions[k].correct = FALSE
                    /\ predictions[k].piece_accuracy = 0
    /\ epc = "done" =>
         /\ idx = Len(image_files)
         /\ Len(LoopCalls) = Len(SelectSeq(image_files, IsOkSample))
         /\ metrics[1].total_images = Len(LoopCalls)

C6_Witness ==
    /\ epc = "done"
    /\ Len(LoopCalls) = 2
    /\ LoopCalls[1].outcome = "raise" /\ LoopCalls[2].outcome = "str"
    /\ predictions[1].error # None /\ ~predictions[1].correct
    /\ predictions[2].error = None /\ predictions[2].correct
    /\ metrics[1].total_images = 2

(* ===================== claims on the service, continued =============== *)
Deleted(id) == id \in used /\ id \notin DOMAIN jobs

\* C11: delete succeeds for a record in any status and removes exactly that
\* record; the delete step leaves the job's task where it is, no later step
\* puts a record for a deleted identifier back, and get answers 404 for it
\* in every later state.
C11_DeleteIsFinal ==
    /\ [](jobs_lock = None =>
            \A id \in DOMAIN jobs :
               /\ delete_job(jobs, id).code = 200
               /\ delete_job(jobs, id).jobs = [k \in DOMAIN jobs \ {id} |-> jobs[k]])
    /\ [](\A id \in JobIds : Deleted(id) => get_job_status(jobs, id).code = 404)
    /\ [][\A id \in JobIds :
            /\ Deleted(id) => id \notin DOMAIN jobs'
            /\ (id \in DOMAIN jobs /\ id \notin DOMAIN jobs') =>
                  /\ pc' = pc /\ req' = req /\ eval_result' = eval_result
                  /\ \A k \in DOMAIN jobs \ {id} :
                        k \in DOMAIN jobs' /\ jobs'[k] = jobs[k]]_vars

\* a job deleted while its task went on: the task has uploaded its report,
\* its writes to the registry raised, and the record is still gone
C11_Witness ==
    \E id \in JobIds :
        /\ Deleted(id) /\ pc[id] = "crashed"
        /\ \E k \in DOMAIN bucket : bucket[k].of = id
        /\ get_job_status(jobs, id).code = 404

\* the positions of a task at a long-running step
LongSteps == {"dataset", "download", "extract", "install", "evaluate", "upload"}
\* the positions of a task between two writes of one "with jobs_lock" block
LockBlocks == {"begin2", "fail2", "fail3", "complete2", "complete3",
               "except2", "except3"}

\* C12: a task at a long-running step (dataset fetch, download, extraction,
\* dependency install, evaluation, upload) never holds the registry lock;
\* the lock is held only by a task between the writes of one of its short
\* write blocks, so whenever no task is inside such a block the lock is free
\* for create, get, delete and the other jobs' status updates.
C12_LockNotHeldInLongSteps ==
    /\ \A j \in JobIds : pc[j] \in LongSteps => jobs_lock # Some(j)
    /\ jobs_lock # None =>
          /\ jobs_lock[1] \in JobIds
          /\ pc[jobs_lock[1]] \in LockBlocks
    /\ (\A j \in JobIds : pc[j] \notin LockBlocks) => jobs_lock = None

\* one task is evaluating while another job's status update holds the lock
C12_Witness ==
    \E j, k \in JobIds :
        /\ j # k
        /\ pc[j] = "evaluate"
        /\ jobs_lock = Some(k) /\ pc[k] = "begin2"

\* the order in which a task passes its positions
Rank(label) ==
    CASE label = "none" -> 0 [] label = "scheduled" -> 1 [] label = "begin2" -> 2
      [] label = "dataset" -> 3 [] label = "download" -> 4
      [] label = "extract" -> 5 [] label = "verify" -> 6
      [] label = "install" -> 7 [] label = "evaluate" -> 8
      [] label = "fail1" -> 9 [] label = "fail2" -> 10 [] label = "fail3" -> 11
      [] label = "upload" -> 9 [] label = "complete1" -> 10
      [] label = "complete2" -> 11 [] label = "complete3" -> 12
      [] label = "exit_with" -> 13 [] label = "except" -> 14
      [] label = "except2" -> 15 [] label = "except3" -> 16
      [] label = "done" -> 17 [] label = "crashed" -> 17

Moves(j) == pc'[j] # pc[j]

\* C13: a task passes each of its positions at most once and in order, so
\* the install step runs at most once and before the evaluation; the
\* evaluation is entered only from an install step that did not fail, and
\* is the only step that produces an evaluation result; a failed install
\* leaves the with block with the exception and no evaluation result, from
\* where the task can only reach the except handler, which writes the
\* record as failed.
C13_InstallOnceBeforeEvaluation ==
    [][\A j \in JobIds :
         /\ Moves(j) => Rank(pc'[j]) > Rank(pc[j])
         /\ (Moves(j) /\ pc'[j] = "evaluate") =>
               pc[j] = "install" /\ exc'[j] = None
         /\ (eval_result'[j] # eval_result[j] /\ eval_result'[j] # None) =>
               pc[j] = "evaluate"
         /\ (Moves(j) /\ pc[j] = "install" /\ pc'[j] # "evaluate") =>
               /\ pc'[j] = "exit_with"
               /\ exc'[j] = Some(ErrInstall)
               /\ eval_result'[j] = None
         /\ (Moves(j) /\ pc[j] = "exit_with" /\ exc[j] # None) => pc'[j] = "except"
         /\ (Moves(j) /\ pc[j] = "except") =>
               \/ pc'[j] = "crashed" /\ j \notin DOMAIN jobs
               \/ pc'[j] = "except2" /\ jobs'[j].status = "failed"]_vars

\* a job whose install failed: never evaluated, record written as failed
\* with the install failure as error
C13_Witness ==
    \E j \in DOMAIN jobs :
        /\ pc[j] = "except3"
        /\ exc[j] = Some(ErrInstall)
        /\ eval_result[j] = None
        /\ jobs[j].status = "failed" /\ jobs[j].error = Some(ErrInstall)
        /\ jobs[j].results = None

(* =============== claims on evaluate_submission, continued ============= *)
AllLabelled == \A i \in 1..Len(dataset) : dataset[i].label = "ok"

\* C14: in a finished run over n samples (all with a readable label) the
\* predictor has been invoked exactly n times, the i-th invocation on the
\* i-th sample.
C14_OneCallPerSample ==
    (epc = "done" /\ AllLabelled) =>
        /\ Len(calls) = Len(image_files)
        /\ \A k \in 1..Len(calls) : calls[k].sample = image_files[k]

\* C15: once the images are listed, the run works on exactly the first
\* min(N, dataset size) samples in dataset order when max_samples = N is
\* given (N >= 0), and on all samples when it is not given.
C15_FirstNSamples ==
    epc \notin {"idle", "start"} =>
        image_files =
            [i \in 1..(IF max_samples = None THEN Len(dataset)
                       ELSE Min(max_samples[1], Len(dataset))) |-> i]

\* C16: a finished run holds exactly one entry for each sample of the
\* (truncated) dataset, the k-th entry for the k-th sample, and total_images
\* is the number of those samples.
C16_OneResultPerSample ==
    epc = "done" =>
        /\ Len(predictions) = Len(image_files)
        /\ \A k \in 1..Len(predictions) : predictions[k].image = image_files[k]
        /\ metrics[1].total_images = Len(image_files)

\* the quotient q of the source equals a / b
QuotEq(q, a, b) == q[1] * b = a * q[2]
ElapsedSeconds(preds) == [k \in 1..Len(preds) |-> preds[k].time_seconds]

\* C17: the metrics of a finished run equal their definitions recomputed from
\* the entries alone: total_images their number, correct_predictions the
\* number with correct true, accuracy = correct_predictions / total,
\* avg_piece_accuracy the mean of piece_accuracy, total_time the sum of
\* time_seconds, avg_inference_time = total_time / total.
C17_MetricsRecomputed ==
    (epc = "done" /\ Len(predictions) > 0) =>
        LET m == metrics[1]
            n == Len(predictions)
            c == Len(SelectSeq(predictions, IsCorrect))
        IN /\ m.total_images = n
           /\ m.correct_predictions = c
           /\ QuotEq(m.accuracy, c, n)
           /\ QuotEq(m.avg_piece_accuracy, SumSeq(PieceAccuracies(predictions)),
                     Squares * n)
           /\ m.total_time = SumSeq(ElapsedSeconds(predictions))
           /\ QuotEq(m.avg_inference_time, SumSeq(ElapsedSeconds(predictions)), n)

\* C18: a run over zero samples does not fail: it passes the test call and
\* the loop without an exception and finishes with no entries and with
\* total_images 0, accuracy 0.0, avg_piece_accuracy 0.0, total_time 0 and
\* avg_inference_time 0.0.
C18_EmptyRunAllZero ==
    (epc \notin {"idle", "start"} /\ image_files = <<>>) =>
        /\ epc \in {"test", "loop", "done"}
        /\ calls = <<>> /\ predictions = <<>> /\ timing = <<>>
        /\ epc = "loop" => idx = Len(image_files)
        /\ epc = "done" =>
              metrics = Some([total_images |-> 0, correct_predictions |-> 0,
                              accuracy |-> Zero, avg_inference_time |-> Zero,
                              total_time |-> 0, avg_piece_accuracy |-> Zero])

C18_Witness ==
    /\ epc = "done" /\ dataset = <<>> /\ image_files = <<>>
    /\ metrics # None /\ metrics[1].total_images = 0
    /\ metrics[1].accuracy = Zero

\* C19: the piece_accuracy of every entry of a run is a fraction between 0
\* and 1 (its numerator is at most 64), and for a scored entry it is the
\* number of position-wise equal squares of the two expanded placements
\* divided by 64.
C19_PieceAccuracyInUnitInterval ==
    \A k \in 1..Len(predictions) :
        /\ 0 <= predictions[k].piece_accuracy
        /\ predictions[k].piece_accuracy <= Squares
        /\ predictions[k].error = None =>
              predictions[k].piece_accuracy =
                 Matches(fen_to_board(predictions[k].predicted[1]),
                         fen_to_board(predictions[k].ground_truth[1]))

\* the first whitespace-delimited field of a string (empty when it has none)
FirstField(str) == IF Split(str) = <<>> THEN <<>> ELSE Split(str)[1]

\* C20: every scored entry is correct exactly when the piece-placement
\* fields of the prediction and of the label, i.e. their first
\* whitespace-delimited fields, are equal, whatever follows the field and
\* whatever whitespace separates it.
C20_ExactMatchOnFirstField ==
    \A k \in 1..Len(predictions) :
        predictions[k].error = None =>
           (predictions[k].correct <=>
               FirstField(predictions[k].predicted[1])
                 = FirstField(predictions[k].ground_truth[1]))

\* C21: no value returned by the predictor aborts the run: evaluate_submission
\* is never left by an exception, and every call of the loop, whatever
\* non-empty string it returned, has appended an entry for its sample.
C21_NoReturnValueAborts ==
    /\ epc # "aborted"
    /\ Len(predictions) = Len(LoopCalls)

(* ===================== claims on the health check ===================== *)
\* C22: a health check never ends in an error, and the active-job count it
\* returns is the number of queued-or-processing records of one registry
\* state that existed during the call.
C22_HealthCountAtomic ==
    health # None =>
        /\ health[1].result # "RuntimeError"
        /\ health[1].result = "returned" => health[1].count \in health[1].seen

(* ======================== claims on progress ========================== *)
TerminalStatus(j) == j \in DOMAIN jobs /\ jobs[j].status \in {"completed", "failed"}

\* C23: every job that is in the registry eventually is deleted or has a
\* terminal status (completed or failed), when tasks are run and external
\* steps end: no record stays queued or processing forever.
C23_EveryJobTerminates ==
    \A j \in JobIds :
        (j \in DOMAIN jobs) ~> (j \notin DOMAIN jobs \/ TerminalStatus(j))

\* a job whose task has run to its end and left the record terminal, beside
\* one that was written failed by the except handler
C23_Witness ==
    \E j, k \in DOMAIN jobs :
        /\ pc[j] = "done" /\ jobs[j].status = "completed"
        /\ pc[k] = "done" /\ jobs[k].status = "failed"
        /\ jobs[k].error = Some(ErrExternal)

(* ======================== claims on the report ======================== *)
\* the task of job j is on its way out after put_object raised
UploadFailed(j) ==
    /\ results_s3_key[j] # None
    /\ exc[j] = Some(ErrExternal)
    /\ pc[j] \in {"exit_with", "except", "except2", "except3"}

\* C24: whenever a record is completed, the object named by the
\* results_s3_key of its results (or, between the writes of the complete
\* block, by the task's results_s3_key) is in the bucket; and a task whose
\* upload failed leaves its record without results, processing until the
\* except handler writes it failed.
C24_UploadedBeforeCompleted ==
    \A j \in DOMAIN jobs :
        /\ jobs[j].results # None =>
              jobs[j].results[1].results_s3_key \in DOMAIN bucket
        /\ (jobs[j].status = "completed" /\ jobs[j].results = None) =>
              /\ pc[j] = "complete2"
              /\ results_s3_key[j][1] \in DOMAIN bucket
        /\ UploadFailed(j) =>
              /\ jobs[j].results = None
              /\ jobs[j].status \in {"processing", "failed"}
              /\ pc[j] \in {"except2", "except3"} => jobs[j].status = "failed"

\* one job completed with its report in the bucket, another written failed
\* after its upload raised
C24_Witness ==
    \E j, k \in DOMAIN jobs :
        /\ jobs[j].status = "completed" /\ jobs[j].results # None
        /\ jobs[j].results[1].results_s3_key \in DOMAIN bucket
        /\ UploadFailed(k) /\ pc[k] = "except3"
        /\ jobs[k].status = "failed" /\ jobs[k].results = None

(* ================= claims on the two scores of a sample ================ *)
\* the ranks of a placement: the pieces between '/'
RECURSIVE RanksOf(_)
RanksOf(str) ==
    IF ~Contains(str, "/") THEN <<str>>
    ELSE LET i == CHOOSE n \in 1..Len(str) :
                      str[n] = "/" /\ \A m \in 1..(n - 1) : str[m] # "/"
         IN  <<SubSeq(str, 1, i - 1)>> \o RanksOf(SubSeq(str, i + 1, Len(str)))
\* 8 ranks, each describing 8 squares
WellFormedPlacement(str) ==
    /\ Len(RanksOf(str)) = 8
    /\ \A r \in 1..8 :
          /\ ~fen_to_board_raises(RanksOf(str)[r])
          /\ Len(fen_to_board(RanksOf(str)[r])) = 8

\* C26: for every scored entry whose predicted and ground-truth strings are
\* both well-formed placements, correct is true exactly when piece_accuracy
\* is 64/64.
C26_CorrectIffAllSquaresMatch ==
    \A k \in 1..Len(predictions) :
        (/\ predictions[k].error = None
         /\ WellFormedPlacement(predictions[k].predicted[1])
         /\ WellFormedPlacement(predictions[k].ground_truth[1]))
        => (predictions[k].correct <=> predictions[k].piece_accuracy = Squares)

(* ======================== claims on isolation ========================= *)
\* the step is one of job j: a step of its task, its creation or its deletion
ActsOn(j) == pc'[j] # pc[j] \/ (j \in DOMAIN jobs /\ j \notin DOMAIN jobs')

\* C25: every step of one job's task, and every get or delete for that job,
\* leaves the record of every other job as it was.
C25_JobsIsolated ==
    /\ [](\A id \in JobIds : get_job_status(jobs, id).jobs = jobs)
    /\ [][\A j \in JobIds :
            ActsOn(j) =>
               \A k \in DOMAIN jobs \ {j} :
                  k \in DOMAIN jobs' /\ jobs'[k] = jobs[k]]_vars

\* a job was written failed at time 1 beside a record completed at time 0,
\* which still shows what its own task wrote
C25_Witness ==
    \E j, k \in DOMAIN jobs :
        /\ j # k
        /\ jobs[j].status = "completed" /\ jobs[j].completed_at = Some(0)
        /\ jobs[j].results # None /\ jobs[j].error = None
        /\ jobs[k].status = "failed" /\ jobs[k].completed_at = Some(1)

=============================================================================
